---- MODULE Spec2Model ----
(***************************************************************************)
(* Model of the rubric grading library: the grading engine                 *)
(* (Submission::grade_against over a Rubric of Criterion values), the      *)
(* results file, and the dropbox collection endpoint.                      *)
(*                                                                         *)
(* Eight specifications share the variables of this module:               *)
(*   Spec        the rubric and one submission under every deadline        *)
(*               policy: add, attach, sorted and grade_against;            *)
(*   SpecRubric  the rubric on its own: add, attach!, test, sorted,        *)
(*               points and total_points around grade_against;             *)
(*   SpecYaml    a rubric built from a YAML map of criteria, in any        *)
(*               iteration order of the map, and graded;                   *)
(*   SpecBuilder one criterion built through CriterionBuilder (either      *)
(*               builder), tested and graded;                              *)
(*   SpecFile    one results file opened and appended to sequentially;     *)
(*   SpecServer  the dropbox endpoint serving concurrent POST /submit      *)
(*               requests on one mutex-guarded results file;               *)
(*   SpecPerRequest  the handler of src/server.rs, which opens the         *)
(*               results file on every request;                            *)
(*   SpecCsv     one Submission whose data map is filled and whose CSV     *)
(*               header and line are produced.                             *)
(***************************************************************************)
EXTENDS Integers, Sequences, FiniteSets, TLC

VARIABLES
    criteria,   \* Rubric.criteria: Vec<Criterion>, in its current order
    policy,     \* Rubric deadline / late policy fields
    sub,        \* the Submission being graded
    now,        \* the last value Local::now() returned (seconds)
    calls,      \* predicates invoked by the most recent grade_against
    grades,     \* number of grade_against calls made on sub
    tests,      \* number of Criterion::test calls made on the criteria
    panicked,   \* TRUE once the program has aborted in a panic
    built,      \* the builder chains run so far, with what they built
    file,       \* the results file on disk: a sequence of lines
    handles,    \* number of ResultsFile values opened so far
    result,     \* the io::Result of the last ResultsFile operation
    mutex,      \* owner of Mutex<ResultsFile>, 0 when free
    pc,         \* per request: position in the route handler
    req,        \* per request: the body that was posted
    resp,       \* per request: the status returned, 0 before
    file0,      \* the results file as it was when the server started
    log,        \* what the handlers have printed to stderr, in order
    csvItem,    \* the Submission whose CSV line and header are produced
    csvOut      \* what header() and as_csv() last returned for csvItem

gradeVars ==
    <<criteria, policy, sub, now, calls, grades, tests, panicked, built>>
fileVars == <<file, handles, result>>
serverVars == <<mutex, pc, req, resp, file0, log>>
csvVars == <<csvItem, csvOut>>
vars == <<criteria, policy, sub, now, calls, grades, tests, panicked, built,
          file, handles, result,
          mutex, pc, req, resp, file0, log, csvItem, csvOut>>

----------------------------------------------------------------------------
(* Bounds and input domains *)

MaxCrit == 2            \* criteria added to the rubric
MaxGrades == 2          \* grade_against calls on the one submission
MaxTests == 1           \* Criterion::test calls made outside grade_against
Day == 86400            \* chrono::Duration::num_days divides seconds by this

None == "None"                \* Option::None of Criterion.status
Some(b) == IF b THEN "Some(true)" ELSE "Some(false)"
\* an Option<DateTime> is the set of its values: {} is None, {t} is Some(t)
NoTime == {}
At(t) == {t}

Names == <<"c1", "c2", "c3", "c4">>     \* name of the k-th criterion added
\* the criteria a rubric is built from: the builder's default index with a
\* positive worth, a tie on the index with a negative worth, and a lower
\* index under an identifier that is already taken
Templates ==
    { [func |-> "f1", index |-> 100, worth |-> 10],
      [func |-> "f2", index |-> 100, worth |-> -2],
      [func |-> "f1", index |-> 1, worth |-> 15] }
Funcs == {"f1", "f2"}
DataMaps == {"empty", "d1"}             \* TestData values
\* a predicate is the set of maps it accepts; the builder's default
\* |_| false accepts none
DefaultTest == {}
Tests == {{"empty"}}                    \* predicates that can be attached

Deadline == Day
FinalDeadline == 3 * Day
LatePenalties == {0, 5}
DailyPenalties == {0, 2}
\* instants the clock is read at: at the deadline (not yet late), 1 second
\* late, just under 24 hours late, exactly 24 and exactly 25 hours late,
\* and past the final deadline
TimePoints == {Deadline, Deadline + 1, Deadline + Day - 1, Deadline + Day,
               Deadline + Day + 3600, FinalDeadline + 1}

----------------------------------------------------------------------------
(* Criterion *)

BuildTested(name, func, index, worth, test) ==
    [name |-> name, func |-> func, index |-> index, worth |-> worth,
     test |-> test, status |-> Some(TRUE)]

\* CriterionBuilder::build: status None, the given fields
Build(name, func, index, worth, test) ==
    [name |-> name, func |-> func, index |-> index, worth |-> worth,
     test |-> test, status |-> None]

\* (self.test)(data)
RunTest(c, data) == data \in c.test

TestWithDataUnrecorded(c, data) == c

\* Criterion::test_with_data: stores Some(result) as status
TestWithData(c, data) == [c EXCEPT !.status = Some(RunTest(c, data))]

----------------------------------------------------------------------------
(* Rubric *)

RECURSIVE InsertByIndexUnstable(_, _)
InsertByIndexUnstable(c, s) ==
    IF s = <<>> THEN <<c>>
    ELSE IF Head(s).index < c.index
         THEN <<Head(s)>> \o InsertByIndexUnstable(c, Tail(s))
         ELSE <<c>> \o s

\* one insertion of the stable sort: c goes after every element whose index
\* is not greater
RECURSIVE InsertByIndex(_, _)
InsertByIndex(c, s) ==
    IF s = <<>> THEN <<c>>
    ELSE IF Head(s).index <= c.index
         THEN <<Head(s)>> \o InsertByIndex(c, Tail(s))
         ELSE <<c>> \o s

SortByIndexNone(s) == s

\* Vec::sort_by(|a, b| a.index.cmp(&b.index)): a stable sort
RECURSIVE SortByIndex(_)
SortByIndex(s) ==
    IF s = <<>> THEN <<>>
    ELSE InsertByIndex(s[Len(s)], SortByIndex(SubSeq(s, 1, Len(s) - 1)))

\* a usize is written hi * 2^64 + lo with lo a small signed offset: the
\* values 0 .. 2^64 - 1 are those with hi = 0, lo >= 0 or hi = 1, lo < 0
Usize(hi, lo) == [hi |-> hi, lo |-> lo]

\* worth as usize: an isize is reinterpreted, a negative one as 2^64 + worth
AsUsize(worth) == IF worth >= 0 THEN Usize(0, worth) ELSE Usize(1, worth)

\* the sum does not fit in a usize
Overflows(u) == u.hi >= 2 \/ (u.hi = 1 /\ u.lo >= 0)

\* how the program was built: overflow checks on (debug) or off (release)
Builds == {"debug", "release"}

\* total += n on a usize: with overflow checks the program panics, without
\* them the sum wraps
UsizeAdd(acc, n, build) ==
    LET sum == Usize(acc.total.hi + n.hi, acc.total.lo + n.lo)
    IN  IF acc.panicked THEN acc
        ELSE IF ~Overflows(sum) THEN [panicked |-> FALSE, total |-> sum]
        ELSE IF build = "debug" THEN [panicked |-> TRUE, total |-> acc.total]
        ELSE [panicked |-> FALSE, total |-> Usize(sum.hi - 1, sum.lo)]

RECURSIVE pointsFrom(_, _, _)
pointsFrom(acc, crits, build) ==
    IF crits = <<>> THEN acc
    ELSE pointsFrom(IF Head(crits).status = Some(TRUE)
                    THEN UsizeAdd(acc, AsUsize(Head(crits).worth), build)
                    ELSE acc,
                    Tail(crits), build)

\* Rubric::points: the usize it returns, or that it panicked
points(crits, build) ==
    pointsFrom([panicked |-> FALSE, total |-> Usize(0, 0)], crits, build)

RECURSIVE total_pointsPassedOnly(_)
total_pointsPassedOnly(crits) ==
    IF crits = <<>> THEN 0
    ELSE (IF Head(crits).status = Some(TRUE) THEN Head(crits).worth ELSE 0)
         + total_pointsPassedOnly(Tail(crits))

\* Rubric::total_points: an isize sum over all the criteria
RECURSIVE total_points(_)
total_points(crits) ==
    IF crits = <<>> THEN 0
    ELSE Head(crits).worth + total_points(Tail(crits))

\* Rubric::past_due: deadline.timestamp() < Local::now().timestamp()
PastDue(pol, t) == \E deadline \in pol.deadline : deadline < t

\* Rubric::past_final_deadline: the same comparison on final_deadline
PastFinalDeadline(pol, t) == \E deadline \in pol.final_deadline : deadline < t

----------------------------------------------------------------------------
(* Submission *)

\* Submission::new / Submission::from_data
NewSubmission(data) ==
    [grade |-> 0, data |-> data, late |-> FALSE,
     passed |-> <<>>, failed |-> <<>>]

\* format!("{} (+{})", message, n) and format!("{} (-{})", message, n):
\* the message, the sign printed before the amount, and the amount
Entry(message, sign, amt) == [msg |-> message, sign |-> sign, amt |-> amt]

\* Submission::addition
addition(s, to_add, message) ==
    [s EXCEPT !.grade = @ + to_add,
              !.passed = Append(@, Entry(message, "+", to_add))]

penaltyPrepend(s, to_penalize, message) ==
    [s EXCEPT !.grade = @ - to_penalize,
              !.failed = <<Entry(message, "-", to_penalize)>> \o @]

\* Submission::penalty
penalty(s, to_penalize, message) ==
    [s EXCEPT !.grade = @ - to_penalize,
              !.failed = Append(@, Entry(message, "-", to_penalize))]

Abs(x) == IF x < 0 THEN -x ELSE x

NumDaysFloor(secs) == secs \div Day

\* chrono::Duration::num_days: whole days, truncated toward zero
NumDays(secs) == IF secs >= 0 THEN secs \div Day ELSE -((-secs) \div Day)

\* deadline.signed_duration_since(Local::now()).num_days().abs() + 1
HowLate(deadline, t) == Abs(NumDays(deadline - t)) + 1

FinalBranchLatePenalty(s, pol) ==
    penalty(s, pol.late_penalty, <<"Past final deadline">>)

\* grade_against, final deadline passed: penalize the whole grade
FinalBranch(s, pol) == penalty(s, s.grade, <<"Past final deadline">>)

LateBranchNoDaily(s, pol, t) ==
    penalty([s EXCEPT !.late = TRUE], pol.late_penalty, <<"Late submission">>)

LateBranchNotMarked(s, pol, t) ==
    LET s2 == penalty(s, pol.late_penalty, <<"Late submission">>)
        how_late == HowLate(CHOOSE d \in pol.deadline : TRUE, t)
    IN  penalty(s2, pol.daily_penalty * how_late, <<how_late, "days late">>)

\* grade_against, deadline passed: mark late, flat penalty, per-day penalty
LateBranch(s, pol, t) ==
    LET s1 == [s EXCEPT !.late = TRUE]
        s2 == penalty(s1, pol.late_penalty, <<"Late submission">>)
        how_late == HowLate(CHOOSE d \in pol.deadline : TRUE, t)
        daily_penalty == pol.daily_penalty * how_late
    IN  penalty(s2, daily_penalty, <<how_late, "days late">>)

DisallowedBranchKeepGrade(s) == penalty(s, 0, <<"Past deadline">>)

\* grade_against, late submission not allowed: penalize the whole grade
DisallowedBranch(s) == penalty(s, s.grade, <<"Past deadline">>)

CritStepSilentFail(s, c) ==
    IF c.status = Some(TRUE)
    THEN addition(s, c.worth, <<c.name>>)
    ELSE s

CritStepSubtract(s, c) ==
    IF c.status = Some(TRUE)
    THEN addition(s, c.worth, <<c.name>>)
    ELSE penalty(s, c.worth, <<c.name>>)

\* the body of the loop over the criteria: c has just been tested
CritStep(s, c) ==
    IF c.status = Some(TRUE)
    THEN addition(s, c.worth, <<c.name>>)
    ELSE penalty(s, 0, <<c.name>>)

\* for crit in rubric.sorted(): test_with_data, then addition or penalty.
\* acc = [sub, criteria, calls]; crits are the criteria not yet visited
RECURSIVE Additions(_, _)
Additions(acc, crits) ==
    IF crits = <<>> THEN acc
    ELSE LET c == TestWithData(Head(crits), acc.sub.data)
         IN  Additions([sub |-> CritStep(acc.sub, c),
                        criteria |-> Append(acc.criteria, c),
                        calls |-> Append(acc.calls,
                                         <<c.name, acc.sub.data>>)],
                       Tail(crits))

grade_againstReset(s, crits, pol, t) ==
    LET s0 == [s EXCEPT !.grade = 0, !.passed = <<>>, !.failed = <<>>]
    IN  IF PastFinalDeadline(pol, t)
        THEN [sub |-> FinalBranch(s0, pol), criteria |-> crits, calls |-> <<>>]
        ELSE LET s1 == IF PastDue(pol, t) THEN LateBranch(s0, pol, t) ELSE s0
             IN  IF PastDue(pol, t) /\ ~pol.allow_late
                 THEN [sub |-> DisallowedBranch(s1), criteria |-> crits,
                       calls |-> <<>>]
                 ELSE Additions([sub |-> s1, criteria |-> <<>>,
                                 calls |-> <<>>],
                                SortByIndex(crits))

\* Submission::grade_against; t is what Local::now() returns during the
\* call (its readings within one call are taken to be the same instant)
grade_against(s, crits, pol, t) ==
    IF PastFinalDeadline(pol, t)
    THEN [sub |-> FinalBranch(s, pol), criteria |-> crits, calls |-> <<>>]
    ELSE LET s1 == IF PastDue(pol, t) THEN LateBranch(s, pol, t) ELSE s
         IN  IF PastDue(pol, t) /\ ~pol.allow_late
             THEN [sub |-> DisallowedBranch(s1), criteria |-> crits,
                   calls |-> <<>>]
             ELSE Additions([sub |-> s1, criteria |-> <<>>, calls |-> <<>>],
                            SortByIndex(crits))

----------------------------------------------------------------------------
(* CSV serialization: impl AsCsv for TestData, Fingerprint and Submission *)

MaxKeys == 2            \* entries in the data map of the serialized item

\* a String is the sequence of its characters
Comma == ","
Semicolon == ";"

\* the byte of a character, as far as keys are compared
Byte(ch) ==
    CASE ch = "," -> 44
      [] ch = "1" -> 49
      [] ch = "2" -> 50
      [] ch = ";" -> 59
      [] ch = "a" -> 97
      [] ch = "b" -> 98
      [] ch = "x" -> 120
      [] ch = "y" -> 121
      [] OTHER -> 0

\* String's Ord: x.0.cmp(&y.0) is Less
RECURSIVE StrLess(_, _)
StrLess(a, b) ==
    IF a = <<>> THEN b # <<>>
    ELSE IF b = <<>> THEN FALSE
    ELSE IF Byte(Head(a)) < Byte(Head(b)) THEN TRUE
    ELSE IF Byte(Head(a)) > Byte(Head(b)) THEN FALSE
    ELSE StrLess(Tail(a), Tail(b))

\* [String]::join(sep)
RECURSIVE Join(_, _)
Join(strs, sep) ==
    IF strs = <<>> THEN <<>>
    ELSE IF Len(strs) = 1 THEN strs[1]
    ELSE strs[1] \o sep \o Join(Tail(strs), sep)

ReplaceNothing(str, from, to) == str

\* str.replace(from, to) for one-character patterns
Replace(str, from, to) ==
    [i \in 1..Len(str) |-> IF str[i] = from THEN to ELSE str[i]]

Digit(d) == <<"0", "1", "2", "3", "4", "5", "6", "7", "8", "9">>[d + 1]

\* Display of an isize
RECURSIVE Decimal(_)
Decimal(n) ==
    IF n < 0 THEN <<"-">> \o Decimal(-n)
    ELSE IF n < 10 THEN <<Digit(n)>>
    ELSE Decimal(n \div 10) \o <<Digit(n % 10)>>

\* Display of a bool
BoolText(b) ==
    IF b THEN <<"t", "r", "u", "e">> ELSE <<"f", "a", "l", "s", "e">>

\* format!("{} (+{})", message, n) as the String pushed to the trail
EntryText(message, sign, amt) ==
    message \o <<" ", "(", sign>> \o Decimal(amt) \o <<")">>

\* one insertion of the stable sort by key of (key, value) pairs
RECURSIVE InsertByKey(_, _)
InsertByKey(p, s) ==
    IF s = <<>> THEN <<p>>
    ELSE IF StrLess(p[1], Head(s)[1]) THEN <<p>> \o s
    ELSE <<Head(s)>> \o InsertByKey(p, Tail(s))

SortByKeyNone(v) == v

\* v.sort_by(|x,y| x.0.cmp(&y.0))
RECURSIVE SortByKey(_)
SortByKey(v) ==
    IF v = <<>> THEN <<>>
    ELSE InsertByKey(v[Len(v)], SortByKey(SubSeq(v, 1, Len(v) - 1)))

\* the orders self.into_iter() can yield the entries of a HashMap in
Iterations(data) ==
    LET n == Cardinality(DOMAIN data)
    IN  { [i \in 1..n |-> <<ks[i], data[ks[i]]>>] :
            ks \in {f \in [1..n -> DOMAIN data] :
                      \A i, j \in 1..n : i # j => f[i] # f[j]} }

\* TestData::as_csv; iter is self.into_iter().collect()
TestDataAsCsv(iter) ==
    LET v == SortByKey(iter)
    IN  Join([i \in 1..Len(v) |-> Replace(v[i][2], Comma, Semicolon)],
             <<Comma>>)

\* TestData::header
TestDataHeader(iter) ==
    LET v == SortByKey(iter)
    IN  Join([i \in 1..Len(v) |-> v[i][1]], <<Comma>>)

\* Fingerprint::as_csv
FingerprintAsCsv(fp) == fp.secret \o <<Comma>> \o fp.platform

\* Fingerprint::header
FingerprintHeader(fp) ==
    <<"s", "e", "c", "r", "e", "t", ",",
      "p", "l", "a", "t", "f", "o", "r", "m">>

\* Submission::as_csv
SubmissionAsCsv(s, iter) ==
    LET csv == Join(<<s.time, BoolText(s.late), Decimal(s.grade),
                      Join(s.passed, <<Semicolon>>),
                      Join(s.failed, <<Semicolon>>),
                      TestDataAsCsv(iter)>>, <<Comma>>)
    IN  IF s.fingerprint = {} THEN csv
        ELSE csv \o <<Comma>>
                 \o FingerprintAsCsv(CHOOSE fp \in s.fingerprint : TRUE)

\* "time,late,grade,passed,failed,"
FixedHeader ==
    <<"t", "i", "m", "e", ",", "l", "a", "t", "e", ",",
      "g", "r", "a", "d", "e", ",", "p", "a", "s", "s", "e", "d", ",",
      "f", "a", "i", "l", "e", "d", ",">>

\* Submission::header
SubmissionHeader(s, iter) ==
    LET header == FixedHeader \o TestDataHeader(iter)
    IN  IF s.fingerprint = {} THEN header
        ELSE header \o <<Comma>>
                    \o FingerprintHeader(CHOOSE fp \in s.fingerprint : TRUE)

\* keys and values of the data map: a key that is a prefix of another, a
\* key and a value that contain a comma
Keys == {<<"a">>, <<"b">>, <<"a", "b">>, <<"a", ",", "b">>}
Values == {<<"1">>, <<"2">>, <<"x", ",", "y">>}
Timestamps == {<<"t">>}         \* self.time.format(&self.timestamp_format)
Secrets == {<<"k">>}
Platform == <<"l", "i", "n", "u", "x">>         \* env::consts::OS

\* TestData::new()
EmptyData == [k \in {} |-> <<>>]

\* late, grade and trail lists as grade_against leaves them: not graded;
\* one criterion passed and one failed; late with both penalties; a passed
\* criterion whose name contains a comma
Trails ==
    { [late |-> FALSE, grade |-> 0, passed |-> <<>>, failed |-> <<>>],
      [late |-> FALSE, grade |-> 10,
       passed |-> <<EntryText(<<"c", "1">>, "+", 10)>>,
       failed |-> <<EntryText(<<"c", "2">>, "-", 0)>>],
      [late |-> TRUE, grade |-> -7,
       passed |-> <<>>,
       failed |-> <<EntryText(<<"L", "a", "t", "e">>, "-", 5),
                    EntryText(<<"1", " ", "d", "a", "y", "s">>, "-", 2)>>],
      [late |-> FALSE, grade |-> 10,
       passed |-> <<EntryText(<<"g", ",", "v">>, "+", 10)>>,
       failed |-> <<>>] }

\* the Submission fields that are serialized
CsvItem(time, trail) ==
    [time |-> time, late |-> trail.late, grade |-> trail.grade,
     passed |-> trail.passed, failed |-> trail.failed,
     data |-> EmptyData, fingerprint |-> {}]

\* nothing has been serialized since the item last changed
NoOut == [dataHeader |-> {}, dataCsv |-> {}, header |-> {}, csv |-> {}]

\* what the other specifications hold the serialized item at
IdleCsv ==
    /\ csvItem = CsvItem(<<"t">>, [late |-> FALSE, grade |-> 0,
                                   passed |-> <<>>, failed |-> <<>>])
    /\ csvOut = NoOut

\* HashMap::insert, as the data! macro calls it for each pair
Insert(k, v) ==
    /\ k \in DOMAIN csvItem.data \/ Cardinality(DOMAIN csvItem.data) < MaxKeys
    /\ csvItem' = [csvItem EXCEPT !.data =
                     [x \in DOMAIN @ \cup {k} |-> IF x = k THEN v ELSE @[x]]]
    /\ csvItem' # csvItem
    /\ csvOut' = NoOut
    /\ UNCHANGED <<gradeVars, fileVars, serverVars>>

\* Submission::set_fingerprint
SetFingerprint(secret) ==
    /\ csvItem' = [csvItem EXCEPT !.fingerprint =
                     {[secret |-> secret, platform |-> Platform]}]
    /\ csvItem' # csvItem
    /\ csvOut' = NoOut
    /\ UNCHANGED <<gradeVars, fileVars, serverVars>>

\* self.data.header(), the map iterated in any order
DataHeader(iter) ==
    /\ csvOut' = [csvOut EXCEPT !.dataHeader = {TestDataHeader(iter)}]
    /\ UNCHANGED <<csvItem, gradeVars, fileVars, serverVars>>

\* self.data.as_csv()
DataAsCsv(iter) ==
    /\ csvOut' = [csvOut EXCEPT !.dataCsv = {TestDataAsCsv(iter)}]
    /\ UNCHANGED <<csvItem, gradeVars, fileVars, serverVars>>

\* sub.header()
Header(iter) ==
    /\ csvOut' = [csvOut EXCEPT !.header = {SubmissionHeader(csvItem, iter)}]
    /\ UNCHANGED <<csvItem, gradeVars, fileVars, serverVars>>

\* sub.as_csv()
AsCsv(iter) ==
    /\ csvOut' = [csvOut EXCEPT !.csv = {SubmissionAsCsv(csvItem, iter)}]
    /\ UNCHANGED <<csvItem, gradeVars, fileVars, serverVars>>

----------------------------------------------------------------------------
(* CriterionBuilder *)

MaxBuilt == 1           \* criteria built through the builder

\* char::is_whitespace, as far as the names below go
IsWhitespace(ch) == ch \in {" ", "\t", "\n"}

\* char::to_lowercase
Lowercase(ch) ==
    CASE ch = "C" -> "c"
      [] ch = "I" -> "i"
      [] ch = "M" -> "m"
      [] ch = "R" -> "r"
      [] ch = "T" -> "t"
      [] ch = "Y" -> "y"
      [] OTHER -> ch

\* str::to_lowercase
to_lowercase(str) == [i \in 1..Len(str) |-> Lowercase(str[i])]

\* str::trim_start and str::trim: leading and trailing whitespace removed
RECURSIVE trim_start(_)
trim_start(str) ==
    IF str # <<>> /\ IsWhitespace(Head(str)) THEN trim_start(Tail(str))
    ELSE str

RECURSIVE trim_end(_)
trim_end(str) ==
    IF str # <<>> /\ IsWhitespace(str[Len(str)])
    THEN trim_end(SubSeq(str, 1, Len(str) - 1))
    ELSE str

trim(str) == trim_end(trim_start(str))

\* the longest prefix of str without whitespace
RECURSIVE Word(_)
Word(str) ==
    IF str = <<>> \/ IsWhitespace(Head(str)) THEN <<>>
    ELSE <<Head(str)>> \o Word(Tail(str))

\* str::split_whitespace: the maximal runs of non-whitespace characters
RECURSIVE split_whitespace(_)
split_whitespace(str) ==
    LET rest == trim_start(str)
    IN  IF rest = <<>> THEN <<>>
        ELSE <<Word(rest)>>
             \o split_whitespace(SubSeq(rest, Len(Word(rest)) + 1, Len(rest)))

\* the longest prefix of str made of spaces (U+0020)
RECURSIVE Spaces(_)
Spaces(str) ==
    IF str = <<>> \/ Head(str) # " " THEN <<>>
    ELSE <<Head(str)>> \o Spaces(Tail(str))

\* Regex::new(r" +").replace_all(str, rep): every maximal run of spaces
\* becomes rep; every other character is kept
RECURSIVE replace_all(_, _)
replace_all(str, rep) ==
    IF str = <<>> THEN <<>>
    ELSE IF Head(str) = " "
         THEN rep \o replace_all(SubSeq(str, Len(Spaces(str)) + 1, Len(str)),
                                 rep)
         ELSE <<Head(str)>> \o replace_all(Tail(str), rep)

\* names handed to Criterion::new: the names of the builder's tests, a
\* name with whitespace around it, one with a tab, and a single word
BuilderNames ==
    { <<"M", "y", " ", "C", "r", "i", "t">>,
      <<"M", "Y", " ", "C", "R", "I", "T", " ", " ", " ", " ", "2">>,
      <<" ", "m", "y", " ", "c", "r", "i", "t", " ">>,
      <<"m", "y", "\t", "c", "r", "i", "t">>,
      <<"c", "r", "i", "t">> }

builder_newHidden(name) ==
    [name |-> trim(name), func |-> {}, worth |-> 0,
     messages |-> <<"passed", "failed">>, desc |-> {}, test |-> {},
     index |-> 100, hide |-> TRUE]

\* CriterionBuilder::new; an Option is the empty set or a singleton
builder_new(name) ==
    [name |-> trim(name), func |-> {}, worth |-> 0,
     messages |-> <<"passed", "failed">>, desc |-> {}, test |-> {},
     index |-> 100, hide |-> FALSE]

\* the setters of CriterionBuilder (func is stub in the older builder)
builder_func(b, f) == [b EXCEPT !.func = {f}]
builder_index(b, i) == [b EXCEPT !.index = i]
builder_test(b, t) == [b EXCEPT !.test = {t}]
builder_messages(b, m) == [b EXCEPT !.messages = m]
builder_desc(b, text) == [b EXCEPT !.desc = {text}]
builder_worth(b, w) == [b EXCEPT !.worth = w]
builder_hide(b, h) == [b EXCEPT !.hide = h]

\* CriterionBuilder::build of src/rubric/criterion_builder.rs: func
\* defaults to the lowercased name with its words joined by "_"
build(b) ==
    [name |-> b.name,
     func |-> IF b.func = {}
              THEN Join(split_whitespace(to_lowercase(b.name)), <<"_">>)
              ELSE CHOOSE f \in b.func : TRUE,
     worth |-> b.worth, messages |-> b.messages, desc |-> b.desc,
     test |-> IF b.test = {} THEN DefaultTest ELSE CHOOSE t \in b.test : TRUE,
     index |-> b.index, status |-> None, hide |-> b.hide]

\* CriterionBuilder::build of src/criterion_builder.rs: the identifier (its
\* stub field, func here) defaults to the trimmed name with " +" replaced
\* by "-", lowercased
build_stub(b) ==
    [name |-> b.name,
     func |-> IF b.func = {}
              THEN to_lowercase(replace_all(trim(b.name), <<"-">>))
              ELSE CHOOSE f \in b.func : TRUE,
     worth |-> b.worth, messages |-> b.messages, desc |-> b.desc,
     test |-> IF b.test = {} THEN DefaultTest ELSE CHOOSE t \in b.test : TRUE,
     index |-> b.index, status |-> None, hide |-> b.hide]

Variants == {"func", "stub"}

\* the setter calls chained between new and build
Chains ==
    { <<>>,
      <<<<"worth", 10>>>>,
      <<<<"func", <<"m", "y", "_", "f", "u", "n", "c">>>>>>,
      <<<<"worth", 10>>, <<"test", {"empty"}>>>>,
      <<<<"messages", <<"success", "failed :(">>>>,
        <<"desc", "Here's my desc">>, <<"hide", TRUE>>, <<"index", 1>>>> }

\* one setter call on the builder
Call(b, call) ==
    CASE call[1] = "func" -> builder_func(b, call[2])
      [] call[1] = "index" -> builder_index(b, call[2])
      [] call[1] = "test" -> builder_test(b, call[2])
      [] call[1] = "messages" -> builder_messages(b, call[2])
      [] call[1] = "desc" -> builder_desc(b, call[2])
      [] call[1] = "worth" -> builder_worth(b, call[2])
      [] call[1] = "hide" -> builder_hide(b, call[2])

RECURSIVE Chain(_, _)
Chain(b, chain) ==
    IF chain = <<>> THEN b ELSE Chain(Call(b, Head(chain)), Tail(chain))

----------------------------------------------------------------------------
(* The rubric and one submission *)

\* RubricYaml fields with their unwrap_or defaults; the late policy is
\* varied where a deadline is set
Policies ==
    { [deadline |-> NoTime, final_deadline |-> f, allow_late |-> TRUE,
       late_penalty |-> 0, daily_penalty |-> 0] :
         f \in {NoTime, At(FinalDeadline)} }
    \cup
    { [deadline |-> At(Deadline), final_deadline |-> f, allow_late |-> a,
       late_penalty |-> l, daily_penalty |-> d] :
         f \in {NoTime, At(FinalDeadline)}, a \in BOOLEAN,
         l \in LatePenalties, d \in DailyPenalties }

InitGrade ==
    /\ criteria = <<>>
    /\ policy \in Policies
    /\ sub \in {NewSubmission(d) : d \in DataMaps}
    /\ now = Deadline
    /\ calls = <<>>
    /\ grades = 0
    /\ tests = 0
    /\ panicked = FALSE
    /\ built = <<>>

\* Rubric::add of a freshly built criterion; the rubric is built before it
\* is graded
Add(func, index, worth) ==
    /\ ~panicked
    /\ Len(criteria) < MaxCrit
    /\ grades = 0
    /\ criteria' = Append(criteria,
           Build(Names[Len(criteria) + 1], func, index, worth, DefaultTest))
    /\ UNCHANGED <<policy, sub, now, calls, grades, tests, panicked,
                   built, fileVars, serverVars, csvVars>>

\* Rubric::get: index of the first criterion with this func, 0 if none
Get(crits, func) ==
    IF \E i \in 1..Len(crits) : crits[i].func = func
    THEN CHOOSE i \in 1..Len(crits) :
            /\ crits[i].func = func
            /\ \A j \in 1..(i - 1) : crits[j].func # func
    ELSE 0

\* attach!: rubric.get(func) then Criterion::attach
Attach(func, test) ==
    /\ ~panicked
    /\ Get(criteria, func) # 0
    /\ criteria[Get(criteria, func)].test # test
    /\ criteria' = [criteria EXCEPT ![Get(criteria, func)].test = test]
    /\ UNCHANGED <<policy, sub, now, calls, grades, tests, panicked,
                   built, fileVars, serverVars, csvVars>>

\* Criterion::test on the i-th criterion: test_with_data with an empty
\* TestData
Test(i) ==
    /\ ~panicked
    /\ tests < MaxTests
    /\ criteria' = [criteria EXCEPT ![i] = TestWithData(@, "empty")]
    /\ tests' = tests + 1
    /\ UNCHANGED <<policy, sub, now, calls, grades, panicked,
                   built, fileVars, serverVars, csvVars>>

\* the (func, test) pairs handed to attach!: one pair, two criteria, the
\* same criterion twice, and lists with an identifier no criterion has
PairLists ==
    { <<<<"f1", {"empty"}>>>>,
      <<<<"f2", {"d1"}>>>>,
      <<<<"f1", {"empty"}>>, <<"f2", {"empty"}>>>>,
      <<<<"f1", {"empty"}>>, <<"f1", {"d1"}>>>>,
      <<<<"f3", {"empty"}>>>>,
      <<<<"f1", {"d1"}>>, <<"f3", {"empty"}>>>>,
      <<<<"f3", {"empty"}>>, <<"f1", {"d1"}>>>> }

attachOneSkip(acc, pair) ==
    LET k == Get(acc.criteria, pair[1])
    IN  IF k = 0 THEN acc
        ELSE [acc EXCEPT !.criteria[k].test = pair[2]]

\* one pair of attach!: if let Some(c) = rubric.get(func) { c.attach(..) }
\* else { panic!(..) }
attachOne(acc, pair) ==
    LET k == Get(acc.criteria, pair[1])
    IN  IF acc.panicked THEN acc
        ELSE IF k = 0 THEN [acc EXCEPT !.panicked = TRUE]
        ELSE [acc EXCEPT !.criteria[k].test = pair[2]]

\* attach!: the pairs are processed in the order they are written
RECURSIVE attachAll(_, _)
attachAll(acc, pairs) ==
    IF pairs = <<>> THEN acc
    ELSE attachAll(attachOne(acc, Head(pairs)), Tail(pairs))

\* attach! { rubric, func => test, ... }
AttachMacro(pairs) ==
    /\ ~panicked
    /\ LET r == attachAll([criteria |-> criteria, panicked |-> FALSE], pairs)
       IN  /\ criteria' = r.criteria
           /\ panicked' = r.panicked
    /\ UNCHANGED <<policy, sub, now, calls, grades, tests,
                   built, fileVars, serverVars, csvVars>>

\* Rubric::sorted called on its own (as print_table does)
Sorted ==
    /\ ~panicked
    /\ criteria' = SortByIndex(criteria)
    /\ criteria' # criteria
    /\ UNCHANGED <<policy, sub, now, calls, grades, tests, panicked,
                   built, fileVars, serverVars, csvVars>>

GradeAgainst ==
    /\ ~panicked
    /\ grades < MaxGrades
    /\ \E t \in TimePoints :
        /\ now <= t
        /\ LET r == grade_against(sub, criteria, policy, t)
           IN  /\ sub' = r.sub
               /\ criteria' = r.criteria
               /\ calls' = r.calls
        /\ now' = t
    /\ grades' = grades + 1
    /\ UNCHANGED <<policy, tests, panicked, built,
                   fileVars, serverVars, csvVars>>

\* what the other two specifications hold the rubric and the submission at
IdleGrade ==
    /\ criteria = <<>>
    /\ policy = [deadline |-> NoTime, final_deadline |-> NoTime,
                 allow_late |-> TRUE, late_penalty |-> 0, daily_penalty |-> 0]
    /\ sub = NewSubmission("empty")
    /\ now = Deadline
    /\ calls = <<>>
    /\ grades = 0
    /\ tests = 0
    /\ panicked = FALSE
    /\ built = <<>>

Init ==
    /\ InitGrade
    /\ file = <<>> /\ handles = 0 /\ result = "Ok"
    /\ mutex = 0 /\ pc = <<>> /\ req = <<>> /\ resp = <<>>
    /\ file0 = <<>> /\ log = <<>>
    /\ IdleCsv

Next ==
    \/ \E c \in Templates : Add(c.func, c.index, c.worth)
    \/ \E f \in Funcs, t \in Tests : Attach(f, t)
    \/ Sorted
    \/ GradeAgainst

Spec == Init /\ [][Next]_vars

----------------------------------------------------------------------------
(* The rubric on its own *)

\* a rubric without a deadline, so that every grading pass reaches the
\* criteria
RubricPolicies ==
    { [deadline |-> NoTime, final_deadline |-> NoTime, allow_late |-> TRUE,
       late_penalty |-> 0, daily_penalty |-> 0] }

InitRubric ==
    /\ criteria = <<>>
    /\ policy \in RubricPolicies
    /\ sub \in {NewSubmission(d) : d \in DataMaps}
    /\ now = FinalDeadline + 1
    /\ calls = <<>>
    /\ grades = 0
    /\ tests = 0
    /\ panicked = FALSE
    /\ built = <<>>
    /\ file = <<>> /\ handles = 0 /\ result = "Ok"
    /\ mutex = 0 /\ pc = <<>> /\ req = <<>> /\ resp = <<>>
    /\ file0 = <<>> /\ log = <<>>
    /\ IdleCsv

NextRubric ==
    \/ \E c \in Templates : Add(c.func, c.index, c.worth)
    \/ \E pairs \in PairLists : AttachMacro(pairs)
    \/ \E i \in 1..Len(criteria) : Test(i)
    \/ Sorted
    \/ GradeAgainst

SpecRubric == InitRubric /\ [][NextRubric]_vars

----------------------------------------------------------------------------
(* A rubric built from YAML *)

\* RubricYaml.criteria, a HashMap from the criterion's name to its
\* CriterionYaml: two criteria that leave the index out (the builder's
\* 100 for both), two with distinct indices, and three of which two tie
YamlCriteria ==
    { { [name |-> "c1", stub |-> "f1", index |-> 100, worth |-> 10],
        [name |-> "c2", stub |-> "f2", index |-> 100, worth |-> 15] },
      { [name |-> "c1", stub |-> "f1", index |-> 2, worth |-> 10],
        [name |-> "c2", stub |-> "f2", index |-> 1, worth |-> 15] },
      { [name |-> "c1", stub |-> "f1", index |-> 100, worth |-> 10],
        [name |-> "c2", stub |-> "f2", index |-> 100, worth |-> -2],
        [name |-> "c3", stub |-> "f3", index |-> 1, worth |-> 15] } }

\* the orders in which iterating over a HashMap can yield its entries: the
\* order depends on the hasher's per-process random keys
Iterations_of(map) ==
    { iter \in [1..Cardinality(map) -> map] :
        \A y \in map : \E i \in 1..Cardinality(map) : iter[i] = y }

\* CriterionYaml::into_criterion: the builder with the YAML's fields
into_criterion(y) ==
    Build(y.name, y.stub, y.index, y.worth, DefaultTest)

\* impl FromStr for Rubric: one criterion pushed per entry of the map, in
\* the order the iteration yields them
from_str(iter) == [i \in 1..Len(iter) |-> into_criterion(iter[i])]

\* allow_late.unwrap_or(true), late_penalty.unwrap_or(0)
YamlPolicies ==
    { [deadline |-> NoTime, final_deadline |-> NoTime, allow_late |-> TRUE,
       late_penalty |-> 0, daily_penalty |-> 0],
      [deadline |-> At(Deadline), final_deadline |-> NoTime,
       allow_late |-> TRUE, late_penalty |-> 5, daily_penalty |-> 0] }

InitYaml ==
    /\ criteria = <<>>
    /\ policy \in YamlPolicies
    /\ sub \in {NewSubmission(d) : d \in DataMaps}
    /\ now = Deadline + Day
    /\ calls = <<>>
    /\ grades = 0
    /\ tests = 0
    /\ panicked = FALSE
    /\ built = <<>>
    /\ file = <<>> /\ handles = 0 /\ result = "Ok"
    /\ mutex = 0 /\ pc = <<>> /\ req = <<>> /\ resp = <<>>
    /\ file0 = <<>> /\ log = <<>>
    /\ IdleCsv

\* Rubric::from_yaml
FromYaml(iter) ==
    /\ criteria = <<>>
    /\ grades = 0
    /\ criteria' = from_str(iter)
    /\ UNCHANGED <<policy, sub, now, calls, grades, tests, panicked,
                   built, fileVars, serverVars, csvVars>>

NextYaml ==
    \/ \E map \in YamlCriteria : \E iter \in Iterations_of(map) : FromYaml(iter)
    \/ \E f \in Funcs, t \in Tests : Attach(f, t)
    \/ GradeAgainst

SpecYaml == InitYaml /\ [][NextYaml]_vars

----------------------------------------------------------------------------
(* Criteria built through the builder *)

InitBuilder ==
    /\ criteria = <<>>
    /\ policy \in RubricPolicies
    /\ sub \in {NewSubmission(d) : d \in DataMaps}
    /\ now = FinalDeadline + 1
    /\ calls = <<>>
    /\ grades = 0
    /\ tests = 0
    /\ panicked = FALSE
    /\ built = <<>>
    /\ file = <<>> /\ handles = 0 /\ result = "Ok"
    /\ mutex = 0 /\ pc = <<>> /\ req = <<>> /\ resp = <<>>
    /\ file0 = <<>> /\ log = <<>>
    /\ IdleCsv

\* rubric.add(Criterion::new(name). ... .build()), with either builder
BuildCriterion(variant, name, chain) ==
    /\ Len(built) < MaxBuilt
    /\ grades = 0
    /\ LET b == Chain(builder_new(name), chain)
           c == IF variant = "func" THEN build(b) ELSE build_stub(b)
       IN  /\ criteria' = Append(criteria, c)
           /\ built' = Append(built, [variant |-> variant, input |-> name,
                                      chain |-> chain, crit |-> c])
    /\ UNCHANGED <<policy, sub, now, calls, grades, tests, panicked,
                   fileVars, serverVars, csvVars>>

NextBuilder ==
    \/ \E v \in Variants, n \in BuilderNames, ch \in Chains :
          BuildCriterion(v, n, ch)
    \/ \E i \in 1..Len(criteria) : Test(i)
    \/ GradeAgainst

SpecBuilder == InitBuilder /\ [][NextBuilder]_vars

----------------------------------------------------------------------------
(* ResultsFile *)

MaxLines == 4           \* lines in the results file
MaxHandles == 3         \* ResultsFile values opened on the path

\* the items written as CSV: the Point of the results-file tests, a
\* Submission without and one with a fingerprint
Items == {"point", "sub", "sub_fp"}

\* AsCsv::header of an item
HeaderOf(item) ==
    CASE item = "point" -> "x,y"
      [] item = "sub" -> "time,late,grade,passed,failed,"
      [] item = "sub_fp" -> "time,late,grade,passed,failed,,secret,platform"
      [] OTHER -> ""

\* AsCsv::as_csv of an item
CsvOf(item) ==
    CASE item = "point" -> "5,7"
      [] item = "sub" -> "t,false,0,,,"
      [] item = "sub_fp" -> "t,false,0,,,,key,linux"
      [] OTHER -> ""

Headers == {HeaderOf(it) : it \in Items}

\* ResultsFile::length; every line ends in a newline, so the byte length
\* is 0 exactly when there is no line
length(f) == Len(f)

\* ResultsFile::append: the record and a newline in one write; a failed
\* write leaves the file as it was
append(f, record, ok) == IF ok THEN Append(f, record) ELSE f

\* ResultsFile::write_csv
write_csv(f, item, ok) == append(f, CsvOf(item), ok)

IoResult(ok) == IF ok THEN "Ok" ELSE "Err"

HeaderNeededAlways(f) == TRUE

\* ResultsFile::new: the header is written when rf.length() == 0
HeaderNeeded(f) == length(f) = 0

\* what the other specifications hold the endpoint at
IdleServer ==
    /\ mutex = 0 /\ pc = <<>> /\ req = <<>> /\ resp = <<>> /\ file0 = <<>>
    /\ log = <<>>

InitFile ==
    /\ IdleGrade
    /\ IdleServer
    /\ IdleCsv
    /\ file = <<>>
    /\ handles = 0
    /\ result = "Ok"

\* ResultsFile::new(path, header): open (creating the file), then write
\* the header if the file is empty; Err when the open or the write fails
New(header, opened, written) ==
    /\ handles < MaxHandles
    /\ IF ~opened
       THEN /\ result' = "Err"
            /\ UNCHANGED <<file, handles>>
       ELSE IF HeaderNeeded(file)
            THEN /\ file' = append(file, header, written)
                 /\ result' = IoResult(written)
                 /\ handles' = IF written THEN handles + 1 ELSE handles
            ELSE /\ result' = "Ok"
                 /\ handles' = handles + 1
                 /\ UNCHANGED file
    /\ UNCHANGED <<gradeVars, serverVars, csvVars>>

\* ResultsFile::write_csv on a ResultsFile opened earlier
WriteCsv(item, written) ==
    /\ handles > 0
    /\ Len(file) < MaxLines
    /\ file' = write_csv(file, item, written)
    /\ result' = IoResult(written)
    /\ UNCHANGED <<handles, gradeVars, serverVars, csvVars>>

NextFile ==
    \/ \E it \in Items, opened, written \in BOOLEAN :
          New(HeaderOf(it), opened, written)
    \/ \E it \in Items, written \in BOOLEAN : WriteCsv(it, written)

SpecFile == InitFile /\ [][NextFile]_vars

----------------------------------------------------------------------------
(* The dropbox endpoint *)

NReq == 3               \* concurrent POST /submit requests

Requests == 1..NReq

Malformed == "malformed"
Bodies == {Malformed, "sub", "sub_fp"}

DeserializesAny(body) == TRUE

\* the Json<Submission> data guard of the route
Deserializes(body) == body # Malformed

\* the mutex after a thread panicked while holding its guard
Poisoned == -1

LockFreeAlways == TRUE

\* Mutex::lock returns once no other request holds the guard
LockFree == mutex = 0

ContinueAfterHeader(ok) == [pc |-> "record", resp |-> 0]

\* the handler after lock.append(&sub.header()): on Err it returns
\* InternalServerError, on Ok it goes on to write the record
AfterHeader(ok) ==
    IF ok THEN [pc |-> "record", resp |-> 0]
    ELSE [pc |-> "done", resp |-> 500]

\* the handler's return after lock.write_csv(&sub)
AfterRecord(ok) == IF ok THEN 202 ELSE 500

\* a line of stderr: its text and, for a {:#?} print, the value printed
LogLine(text, value) == [text |-> text, value |-> value]

\* eprintln!("{:#?}", sub)
DebugPrint(body) == LogLine("{:#?}", body)

\* what the handler prints when lock.append(&sub.header()) is Err
HeaderLog(ok) ==
    IF ok THEN <<>>
    ELSE <<LogLine("Error! Could not write csv file header", "none")>>

\* what the handler prints when lock.write_csv(&sub) is Err
RecordLog(body, ok) ==
    IF ok THEN <<>>
    ELSE <<LogLine("Error: Could not write following submission", "none"),
           DebugPrint(body)>>

\* new_rocket: the results file is opened, as it was left by earlier runs
InitServer ==
    /\ IdleGrade
    /\ IdleCsv
    /\ file \in {<<>>, <<HeaderOf("sub"), CsvOf("sub")>>}
    /\ file0 = file
    /\ handles = 1
    /\ result = "Ok"
    /\ mutex = 0
    /\ pc = [i \in Requests |-> "idle"]
    /\ req = [i \in Requests |-> "none"]
    /\ resp = [i \in Requests |-> 0]
    /\ log = <<>>

\* a client posts a body to /submit
Post(i, body) ==
    /\ pc[i] = "idle"
    /\ req' = [req EXCEPT ![i] = body]
    /\ pc' = [pc EXCEPT ![i] = "posted"]
    /\ UNCHANGED <<csvVars, gradeVars, fileVars, mutex, resp, file0, log>>

\* the body does not deserialize: 422, the handler is not called
Reject(i) ==
    /\ pc[i] = "posted"
    /\ ~Deserializes(req[i])
    /\ resp' = [resp EXCEPT ![i] = 422]
    /\ pc' = [pc EXCEPT ![i] = "done"]
    /\ UNCHANGED <<csvVars, gradeVars, fileVars, mutex, req, file0, log>>

\* accept_submission is called with the deserialized submission
Enter(i) ==
    /\ pc[i] = "posted"
    /\ Deserializes(req[i])
    /\ pc' = [pc EXCEPT ![i] = "lock"]
    /\ UNCHANGED <<csvVars, gradeVars, fileVars, mutex, req, resp, file0, log>>

\* shared_rf.results_file.lock()
Lock(i) ==
    /\ pc[i] = "lock"
    /\ LockFree
    /\ mutex' = i
    /\ pc' = [pc EXCEPT ![i] = "length"]
    /\ UNCHANGED <<csvVars, gradeVars, fileVars, req, resp, file0, log>>

\* if lock.length() == 0
Length(i) ==
    /\ pc[i] = "length"
    /\ pc' = [pc EXCEPT ![i] = IF length(file) = 0 THEN "header" ELSE "record"]
    /\ UNCHANGED <<csvVars, gradeVars, fileVars, mutex, req, resp, file0, log>>

\* lock.length() panics: metadata(&self.path) is Err (the file was removed
\* or made inaccessible); the guard is dropped while the thread unwinds,
\* which poisons the mutex, and the request gets no status
LengthPanics(i) ==
    /\ pc[i] = "length"
    /\ pc' = [pc EXCEPT ![i] = "panicked"]
    /\ mutex' = Poisoned
    /\ UNCHANGED <<csvVars, gradeVars, fileVars, req, resp, file0, log>>

\* lock() on a poisoned mutex is Err, and expect("Lock shared results
\* file") panics
LockPoisoned(i) ==
    /\ pc[i] = "lock"
    /\ mutex = Poisoned
    /\ pc' = [pc EXCEPT ![i] = "panicked"]
    /\ UNCHANGED <<csvVars, gradeVars, fileVars, mutex, req, resp, file0, log>>

\* lock.append(&sub.header()); on Err the handler returns and the guard
\* is dropped
WriteHeader(i, ok) ==
    /\ pc[i] = "header"
    /\ file' = append(file, HeaderOf(req[i]), ok)
    /\ result' = IoResult(ok)
    /\ pc' = [pc EXCEPT ![i] = AfterHeader(ok).pc]
    /\ resp' = [resp EXCEPT ![i] = AfterHeader(ok).resp]
    /\ mutex' = IF AfterHeader(ok).pc = "done" THEN 0 ELSE mutex
    /\ log' = log \o HeaderLog(ok)
    /\ UNCHANGED <<csvVars, gradeVars, handles, req, file0>>

\* lock.write_csv(&sub), the status, and the guard dropped on return
WriteRecord(i, ok) ==
    /\ pc[i] = "record"
    /\ file' = write_csv(file, req[i], ok)
    /\ result' = IoResult(ok)
    /\ pc' = [pc EXCEPT ![i] = "done"]
    /\ resp' = [resp EXCEPT ![i] = AfterRecord(ok)]
    /\ mutex' = 0
    /\ log' = log \o RecordLog(req[i], ok)
    /\ UNCHANGED <<csvVars, gradeVars, handles, req, file0>>

NextServer ==
    \/ \E i \in Requests, b \in Bodies : Post(i, b)
    \/ \E i \in Requests : Reject(i)
    \/ \E i \in Requests : Enter(i)
    \/ \E i \in Requests : Lock(i)
    \/ \E i \in Requests : Length(i)
    \/ \E i \in Requests : LengthPanics(i)
    \/ \E i \in Requests : LockPoisoned(i)
    \/ \E i \in Requests, ok \in BOOLEAN : WriteHeader(i, ok)
    \/ \E i \in Requests, ok \in BOOLEAN : WriteRecord(i, ok)

SpecServer == InitServer /\ [][NextServer]_vars

----------------------------------------------------------------------------
(* The per-request handler of src/server.rs *)

\* run: no ResultsFile is shared; every request opens its own
InitPerRequest ==
    /\ IdleGrade
    /\ IdleCsv
    /\ file \in {<<>>, <<HeaderOf("sub"), CsvOf("sub")>>}
    /\ file0 = file
    /\ handles = 0
    /\ result = "Ok"
    /\ mutex = 0
    /\ pc = [i \in Requests |-> "idle"]
    /\ req = [i \in Requests |-> "none"]
    /\ resp = [i \in Requests |-> 0]
    /\ log = <<>>

\* accept_submission calls ResultsFile::for_item; ResultsFile::new opens
\* the file in append mode, creating it if need be; on Err the expect
\* panics
ForItem(i, ok) ==
    /\ pc[i] = "posted"
    /\ Deserializes(req[i])
    /\ pc' = [pc EXCEPT ![i] = IF ok THEN "new_length" ELSE "panicked"]
    /\ handles' = IF ok THEN handles + 1 ELSE handles
    /\ result' = IoResult(ok)
    /\ UNCHANGED <<csvVars, gradeVars, file, mutex, req, resp, file0, log>>

\* ResultsFile::new: if rf.length() == 0
NewLength(i) ==
    /\ pc[i] = "new_length"
    /\ pc' = [pc EXCEPT ![i] = IF HeaderNeeded(file) THEN "new_header"
                               ELSE "write"]
    /\ UNCHANGED <<csvVars, gradeVars, fileVars, mutex, req, resp, file0, log>>

\* ResultsFile::new: rf.append(&header); on Err new returns Err and the
\* expect in the handler panics
NewHeader(i, ok) ==
    /\ pc[i] = "new_header"
    /\ file' = append(file, HeaderOf(req[i]), ok)
    /\ result' = IoResult(ok)
    /\ pc' = [pc EXCEPT ![i] = IF ok THEN "write" ELSE "panicked"]
    /\ UNCHANGED <<csvVars, gradeVars, handles, mutex, req, resp, file0, log>>

\* rf.write_csv(&sub) and the status returned
Write(i, ok) ==
    /\ pc[i] = "write"
    /\ file' = write_csv(file, req[i], ok)
    /\ result' = IoResult(ok)
    /\ pc' = [pc EXCEPT ![i] = "done"]
    /\ resp' = [resp EXCEPT ![i] = AfterRecord(ok)]
    /\ log' = log \o RecordLog(req[i], ok)
    /\ UNCHANGED <<csvVars, gradeVars, handles, mutex, req, file0>>

NextPerRequest ==
    \/ \E i \in Requests, b \in Bodies : Post(i, b)
    \/ \E i \in Requests : Reject(i)
    \/ \E i \in Requests, ok \in BOOLEAN : ForItem(i, ok)
    \/ \E i \in Requests : NewLength(i)
    \/ \E i \in Requests, ok \in BOOLEAN : NewHeader(i, ok)
    \/ \E i \in Requests, ok \in BOOLEAN : Write(i, ok)

SpecPerRequest == InitPerRequest /\ [][NextPerRequest]_vars

----------------------------------------------------------------------------
(* Serializing one Submission *)

InitCsv ==
    /\ IdleGrade
    /\ IdleServer
    /\ file = <<>> /\ handles = 0 /\ result = "Ok"
    /\ csvItem \in {CsvItem(t, tr) : t \in Timestamps, tr \in Trails}
    /\ csvOut = NoOut

NextCsv ==
    \/ \E k \in Keys, v \in Values : Insert(k, v)
    \/ \E secret \in Secrets : SetFingerprint(secret)
    \/ \E iter \in Iterations(csvItem.data) : DataHeader(iter)
    \/ \E iter \in Iterations(csvItem.data) : DataAsCsv(iter)
    \/ \E iter \in Iterations(csvItem.data) : Header(iter)
    \/ \E iter \in Iterations(csvItem.data) : AsCsv(iter)

SpecCsv == InitCsv /\ [][NextCsv]_vars

----------------------------------------------------------------------------
(* Vocabulary of the properties of grade_against *)

RECURSIVE SumPassing(_, _)
\* the sum of the worths of the criteria whose predicate accepts data
SumPassing(crits, data) ==
    IF crits = <<>> THEN 0
    ELSE (IF RunTest(Head(crits), data) THEN Head(crits).worth ELSE 0)
         + SumPassing(Tail(crits), data)

\* floor(L / 24h) + 1 for a lateness of L seconds
DaysLate(L) == (L \div Day) + 1

TheDeadline == CHOOSE d \in policy.deadline : TRUE

\* a step that is one call of grade_against
GradeStep == grades' = grades + 1
\* ... taken after the final deadline
FinalStep == GradeStep /\ PastFinalDeadline(policy, now')
\* ... taken after the deadline and before the final one
LateStep ==
    GradeStep /\ PastDue(policy, now') /\ ~PastFinalDeadline(policy, now')
\* ... that reaches the loop over the criteria
FullStep ==
    /\ GradeStep
    /\ ~PastFinalDeadline(policy, now')
    /\ ~(PastDue(policy, now') /\ ~policy.allow_late)

\* position of a criterion in the order the criteria were added
Ord(c) == CHOOSE k \in 1..Len(Names) : Names[k] = c.name

NameSet(crits) == {crits[i].name : i \in 1..Len(crits)}

----------------------------------------------------------------------------
(* C1 *)

\* C1: a fresh Submission graded once while no deadline has passed ends
\* with a grade equal to the sum of the worths of the criteria whose
\* predicate accepts the submission's data; a failing criterion adds an
\* entry with amount 0 and takes nothing from the grade.
C1_GradeIsSumOfPassing ==
    [][(GradeStep /\ grades = 0 /\ ~PastDue(policy, now')
            /\ ~PastFinalDeadline(policy, now'))
        => /\ sub'.grade = SumPassing(criteria, sub.data)
           /\ \A i \in 1..Len(sub'.failed) : sub'.failed[i].amt = 0]_vars

\* a graded submission with one passing and one failing criterion of
\* non-zero worth
C1_Witness ==
    /\ grades = 1 /\ ~sub.late
    /\ Len(sub.passed) = 1 /\ Len(sub.failed) = 1
    /\ \E i \in 1..Len(criteria) :
          criteria[i].status = Some(FALSE) /\ criteria[i].worth # 0
    /\ sub.grade # 0

----------------------------------------------------------------------------
(* C2 *)

\* C2: when the final deadline has passed, grade_against leaves the grade
\* at exactly 0, appends exactly one entry to failed and none to passed,
\* invokes no predicate and leaves every criterion (status and position)
\* as it was.
C2_FinalDeadlineShortCircuit ==
    [][FinalStep
        => /\ sub'.grade = 0
           /\ Len(sub'.failed) = Len(sub.failed) + 1
           /\ SubSeq(sub'.failed, 1, Len(sub.failed)) = sub.failed
           /\ sub'.passed = sub.passed
           /\ calls' = <<>>
           /\ criteria' = criteria]_vars

\* a submission that had earned points is graded again after the final
\* deadline, against a rubric with criteria
C2_Witness ==
    /\ grades = 2
    /\ PastFinalDeadline(policy, now)
    /\ Len(sub.passed) > 0
    /\ sub.failed[Len(sub.failed)].msg = <<"Past final deadline">>
    /\ sub.failed[Len(sub.failed)].amt > 0
    /\ Len(criteria) = MaxCrit

\* a fresh submission graded once after the final deadline: the criteria
\* stay untested
C2_WitnessFresh ==
    /\ grades = 1
    /\ PastFinalDeadline(policy, now)
    /\ Len(criteria) = MaxCrit
    /\ \A i \in 1..Len(criteria) : criteria[i].status = None
    /\ \E i \in 1..Len(criteria) : criteria[i].test # DefaultTest

----------------------------------------------------------------------------
(* C3 *)

\* C3: when the deadline has passed, the final deadline has not, and late
\* submission is not allowed, grade_against leaves the grade at exactly 0
\* whatever the flat and per-day penalties are, marks the submission late,
\* invokes no predicate and leaves every criterion as it was.
C3_LateDisallowedShortCircuit ==
    [][(LateStep /\ ~policy.allow_late)
        => /\ sub'.grade = 0
           /\ sub'.late
           /\ calls' = <<>>
           /\ criteria' = criteria]_vars

\* a late, disallowed grading with both penalties non-zero and a criterion
\* that would have passed
C3_Witness ==
    /\ grades = 1
    /\ PastDue(policy, now) /\ ~PastFinalDeadline(policy, now)
    /\ ~policy.allow_late
    /\ policy.late_penalty > 0 /\ policy.daily_penalty > 0
    /\ sub.late /\ sub.grade = 0
    /\ \E i \in 1..Len(criteria) :
          criteria[i].status = None /\ RunTest(criteria[i], sub.data)

----------------------------------------------------------------------------
(* C4 *)

\* C4: when the deadline has passed, the final deadline has not, and late
\* submission is allowed, a fresh Submission ends late and with grade
\* (sum of the worths of the passing criteria) - late_penalty
\* - daily_penalty * days_late.
C4_LateAllowedGrade ==
    [][(LateStep /\ policy.allow_late /\ grades = 0)
        => /\ sub'.late
           /\ sub'.grade = SumPassing(criteria, sub.data)
                             - policy.late_penalty
                             - policy.daily_penalty
                                 * DaysLate(now' - TheDeadline)]_vars

\* flat penalty 5, no per-day penalty, nothing passing: grade -5
C4_Witness ==
    /\ grades = 1
    /\ PastDue(policy, now) /\ ~PastFinalDeadline(policy, now)
    /\ policy.allow_late
    /\ policy.late_penalty = 5 /\ policy.daily_penalty = 0
    /\ SumPassing(criteria, sub.data) = 0
    /\ sub.late /\ sub.grade = -5

\* both penalties and a passing criterion, two days late
C4_WitnessDaily ==
    /\ grades = 1
    /\ policy.allow_late
    /\ policy.late_penalty = 5 /\ policy.daily_penalty = 2
    /\ now = Deadline + Day + 3600
    /\ Len(sub.passed) = 1
    /\ sub.grade = sub.passed[1].amt - 5 - 4

----------------------------------------------------------------------------
(* C5 *)

\* the "<n> days late" entry of a late grading step: the second entry the
\* step appends to failed
DaysEntry == sub'.failed[Len(sub.failed) + 2]

\* C5: for a lateness L > 0 the days-late count that the per-day penalty is
\* multiplied by is floor(L / 24h) + 1: 1 up to just under 24 hours
\* (1 second included), 2 at exactly 25 hours, and never 0 or negative.
C5_DaysLate ==
    [][LateStep
        => LET L == now' - TheDeadline
           IN  /\ L > 0
               /\ DaysEntry.msg = <<DaysLate(L), "days late">>
               /\ DaysEntry.amt = policy.daily_penalty * DaysLate(L)
               /\ DaysLate(L) >= 1
               /\ L < Day => DaysEntry.msg[1] = 1
               /\ L = 25 * 3600 => DaysEntry.msg[1] = 2]_vars

\* graded one second late with a per-day penalty: one day late
C5_Witness ==
    /\ grades = 1 /\ sub.late
    /\ now = Deadline + 1
    /\ policy.daily_penalty = 2
    /\ sub.failed[2] = Entry(<<1, "days late">>, "-", 2)

\* graded exactly 25 hours late: two days late
C5_Witness25h ==
    /\ grades = 1 /\ sub.late
    /\ now = Deadline + 25 * 3600
    /\ policy.daily_penalty = 2
    /\ sub.failed[2] = Entry(<<2, "days late">>, "-", 4)

----------------------------------------------------------------------------
(* C6 *)

\* after is before sorted by index: the same criteria, indices
\* non-decreasing, and criteria of equal index in the order they have in
\* before
IsStableSortOf(after, before) ==
    /\ Len(after) = Len(before)
    /\ NameSet(after) = NameSet(before)
    /\ \A i, j \in 1..Len(after) :
          i < j => after[i].index <= after[j].index
    /\ \A i, j \in 1..Len(after) :
          (i < j /\ after[i].index = after[j].index)
            => \E k, l \in 1..Len(before) :
                  /\ k < l
                  /\ before[k].name = after[i].name
                  /\ before[l].name = after[j].name

\* a step of Rubric::sorted on its own: the criteria change places only
SortedStep ==
    /\ grades' = grades
    /\ Len(criteria') = Len(criteria)
    /\ criteria' # criteria
    /\ NameSet(criteria') = NameSet(criteria)
    /\ \E i \in 1..Len(criteria) : criteria'[i].name # criteria[i].name

C6_WitnessReordered ==
    /\ grades = 1
    /\ Len(calls) = 2
    /\ calls[1][1] = "c2" /\ calls[2][1] = "c1"
    /\ criteria[1].index < criteria[2].index

----------------------------------------------------------------------------
(* Vocabulary of the properties of the results file and the endpoint *)

IsHeader(line) == line \in Headers

\* the requests inside the critical section of accept_submission
InCritical == {i \in Requests : pc[i] \in {"length", "header", "record"}}

Accepted == {i \in Requests : resp[i] = 202}

\* request i leaves the position p of its handler in this step
Leaves(i, p) == pc[i] = p /\ pc'[i] # p

----------------------------------------------------------------------------
(* C7 *)

\* C7: the length check, the header write and the record append of one
\* request form one critical section under the mutex, so for requests
\* posted concurrently against an initially empty results file the file is
\* always one header line followed by one complete record line per accepted
\* request, and once all NReq requests have been accepted it is the header
\* followed by exactly NReq records.
C7_ConcurrentAppend ==
    /\ Cardinality(InCritical) <= 1
    /\ \A i \in InCritical : mutex = i
    /\ file0 = <<>> =>
        /\ \A k \in 1..Len(file) : IsHeader(file[k]) <=> k = 1
        /\ Len(file) > 0 => Len(file) - 1 = Cardinality(Accepted)
        /\ Len(file) = 0 => Accepted = {}
        /\ Accepted = Requests =>
              /\ Len(file) = NReq + 1
              /\ \A i \in Requests :
                    \E k \in 2..Len(file) : file[k] = CsvOf(req[i])

\* every request was accepted: the header and NReq records
C7_Witness ==
    /\ file0 = <<>>
    /\ Accepted = Requests
    /\ Len(file) = NReq + 1
    /\ \E i, j \in Requests : req[i] # req[j]

\* a request waits for the mutex while another is between its length check
\* and its header write on the empty file
C7_WitnessContention ==
    /\ file = <<>>
    /\ \E i, j \in Requests : pc[i] = "header" /\ pc[j] = "lock"

----------------------------------------------------------------------------
(* C8 *)

\* a step in which ResultsFile::new returns Ok
NewStep == handles' = handles + 1

\* C8: ResultsFile::new writes the header exactly when the file is empty
\* at open time, so over any sequence of opens and appends on one path
\* the file has one header line and it is the first line; opening a
\* non-empty file adds nothing.
C8_HeaderOnce ==
    /\ [][NewStep =>
            /\ file = <<>> => (Len(file') = 1 /\ IsHeader(file'[1]))
            /\ file # <<>> => file' = file]_vars
    /\ [](handles > 0 =>
            /\ file # <<>>
            /\ \A k \in 1..Len(file) : IsHeader(file[k]) <=> k = 1)

\* the path was opened again after records were written
C8_Witness ==
    /\ handles = MaxHandles
    /\ Len(file) = MaxLines
    /\ IsHeader(file[1])

----------------------------------------------------------------------------
(* C9 *)

\* C9: a POST /submit whose body does not deserialize is answered 422;
\* the handler is never entered for it (it never waits for or holds the
\* mutex and never reaches a write), and the step that rejects it leaves
\* the results file as it was.
C9_MalformedRejected ==
    /\ [](\A i \in Requests : req[i] = Malformed =>
            /\ pc[i] \in {"posted", "done"}
            /\ resp[i] = (IF pc[i] = "done" THEN 422 ELSE 0)
            /\ mutex # i)
    /\ [][\A i \in Requests : (req[i] = Malformed /\ Leaves(i, "posted")) =>
            /\ resp'[i] = 422
            /\ file' = file
            /\ mutex' = mutex]_vars

\* a malformed request was rejected next to an accepted one
C9_Witness ==
    \E i, j \in Requests :
        /\ req[i] = Malformed /\ resp[i] = 422
        /\ resp[j] = 202
        /\ Len(file) = Len(file0) + (IF file0 = <<>> THEN 2 ELSE 1)

----------------------------------------------------------------------------
(* C10 *)

\* C10: for a well-formed submission the endpoint answers 202 exactly when
\* its record line was appended (below a header line); it answers 500 when
\* the header write or the record write fails, and after a failed header
\* write the handler returns without writing the record.
C10_StatusMatchesWrite ==
    [][\A i \in Requests :
        /\ Leaves(i, "header") =>
              IF result' = "Err"
              THEN resp'[i] = 500 /\ pc'[i] = "done" /\ file' = file
              ELSE /\ resp'[i] = 0 /\ pc'[i] = "record"
                   /\ file' = Append(file, HeaderOf(req[i]))
        /\ Leaves(i, "record") =>
              IF result' = "Err"
              THEN resp'[i] = 500 /\ file' = file
              ELSE resp'[i] = 202 /\ file' = Append(file, CsvOf(req[i]))
        /\ (resp[i] = 0 /\ resp'[i] = 202) =>
              /\ Deserializes(req[i])
              /\ file # <<>>
              /\ file' = Append(file, CsvOf(req[i]))
        /\ (resp[i] = 0 /\ resp'[i] = 500) => file' = file]_vars

\* the header write failed on the empty file: 500 and still no line
C10_Witness ==
    /\ file0 = <<>>
    /\ file = <<>>
    /\ \E i \in Requests : resp[i] = 500 /\ pc[i] = "done"

\* the record write failed after the header was written
C10_WitnessRecordFailed ==
    /\ file0 = <<>>
    /\ Len(file) = 1
    /\ \E i \in Requests : resp[i] = 500 /\ file[1] = HeaderOf(req[i])

\* a submission accepted on the empty file: header, then its record
C10_WitnessAccepted ==
    /\ file0 = <<>>
    /\ \E i \in Requests :
          resp[i] = 202 /\ file = <<HeaderOf(req[i]), CsvOf(req[i])>>

----------------------------------------------------------------------------
(* C11 *)

\* the lines a step adds to stderr
Printed == {log'[k] : k \in (Len(log) + 1)..Len(log')}

\* C11: whenever the endpoint answers a well-formed submission with 500,
\* whether the header write or the record write failed, the step that sets
\* the status has printed the contents of that submission to stderr.
C11_FailureEchoed ==
    [][\A i \in Requests :
        (Deserializes(req[i]) /\ resp[i] = 0 /\ resp'[i] = 500)
          => DebugPrint(req[i]) \in Printed]_vars

----------------------------------------------------------------------------
(* C12 *)

\* the entries a step appends to a trail list
NewEntries(before, after) == SubSeq(after, Len(before) + 1, Len(after))

\* the messages of the criteria with the given status, in the order of crits
RECURSIVE MsgsWithStatus(_, _)
MsgsWithStatus(crits, status) ==
    IF crits = <<>> THEN <<>>
    ELSE (IF Head(crits).status = status
          THEN <<<<Head(crits).name>>>> ELSE <<>>)
         \o MsgsWithStatus(Tail(crits), status)

Msgs(entries) == [k \in 1..Len(entries) |-> entries[k].msg]

\* the deadline entries a grading step at instant t puts in failed
DeadlineMsgs(pol, deadline, t) ==
    IF PastDue(pol, t)
    THEN <<<<"Late submission">>, <<DaysLate(t - deadline), "days late">>>>
    ELSE <<>>

\* C12: one grading pass only appends to the trail lists; in failed the
\* flat late-penalty entry comes first, then the days-late entry, then the
\* entries of the failing criteria in the order they were evaluated
\* (ascending index); passed receives the entries of the passing criteria
\* in that order.
C12_TrailOrder ==
    /\ [][GradeStep
            => /\ SubSeq(sub'.passed, 1, Len(sub.passed)) = sub.passed
               /\ SubSeq(sub'.failed, 1, Len(sub.failed)) = sub.failed
               /\ Len(sub'.passed) >= Len(sub.passed)
               /\ Len(sub'.failed) >= Len(sub.failed)]_vars
    /\ [][FullStep
            => /\ Msgs(NewEntries(sub.failed, sub'.failed))
                    = DeadlineMsgs(policy, TheDeadline, now')
                        \o MsgsWithStatus(criteria', Some(FALSE))
               /\ Msgs(NewEntries(sub.passed, sub'.passed))
                    = MsgsWithStatus(criteria', Some(TRUE))
               /\ \A i, j \in 1..Len(criteria') :
                     i < j => criteria'[i].index <= criteria'[j].index]_vars

\* a late grading in which the criterion added second, with the lower
\* index, failed before the one added first
C12_Witness ==
    /\ grades = 1 /\ sub.late
    /\ Len(sub.failed) = 4
    /\ sub.failed[1].msg = <<"Late submission">>
    /\ sub.failed[2].msg[2] = "days late"
    /\ sub.failed[3].msg = <<"c2">>
    /\ sub.failed[4].msg = <<"c1">>

\* a second, late pass appended its entries after those of the first
C12_WitnessSecondPass ==
    /\ grades = 2 /\ sub.late
    /\ Len(sub.failed) = 4
    /\ sub.failed[1].msg = <<"c1">>
    /\ sub.failed[2].msg = <<"Late submission">>
    /\ sub.failed[4].msg = <<"c1">>
    /\ Len(sub.passed) = 2

----------------------------------------------------------------------------
(* C13 *)

\* how many of the entries carry the message of criterion c
EntriesOf(c, entries) ==
    Cardinality({k \in 1..Len(entries) : entries[k].msg = <<c.name>>})

\* a grading step that evaluates the criteria gives every passing one
\* exactly one entry "<name> (+<worth>)" in passed and every failing one
\* exactly one entry "<name> (<failSign>0)" in failed
CriterionEntries(failSign) ==
    FullStep =>
        LET newPassed == NewEntries(sub.passed, sub'.passed)
            newFailed == NewEntries(sub.failed, sub'.failed)
        IN  \A i \in 1..Len(criteria') :
              LET c == criteria'[i]
              IN  IF c.status = Some(TRUE)
                  THEN /\ EntriesOf(c, newPassed) = 1
                       /\ EntriesOf(c, newFailed) = 0
                       /\ \E k \in 1..Len(newPassed) :
                             newPassed[k] = Entry(<<c.name>>, "+", c.worth)
                  ELSE /\ EntriesOf(c, newFailed) = 1
                       /\ EntriesOf(c, newPassed) = 0
                       /\ \E k \in 1..Len(newFailed) :
                             newFailed[k] = Entry(<<c.name>>, failSign, 0)

----------------------------------------------------------------------------
(* C14 *)

\* the keys of a data map in strictly increasing lexicographic order
KeysInOrder(data) ==
    LET n == Cardinality(DOMAIN data)
    IN  CHOOSE ks \in [1..n -> DOMAIN data] :
            \A i, j \in 1..n : i < j => StrLess(ks[i], ks[j])

\* value with every comma turned into a semicolon
Sanitized(value) ==
    [i \in 1..Len(value) |-> IF value[i] = "," THEN ";" ELSE value[i]]

\* C14: for every data map header() is the keys in lexicographic order
\* joined by commas and as_csv() is the values in the order of their sorted
\* keys, whatever order the map is iterated in; every comma inside a value
\* is written as a semicolon ({"b":"2","a":"1"} gives "a,b" and "1,2";
\* "x,y" is written "x;y").
C14_DataSortedByKey ==
    LET data == csvItem.data
        ks == KeysInOrder(data)
    IN  /\ \A h \in csvOut.dataHeader : h = Join(ks, <<",">>)
        /\ \A c \in csvOut.dataCsv :
              c = Join([i \in 1..Len(ks) |-> Sanitized(data[ks[i]])], <<",">>)
        /\ (DOMAIN data = {<<"a">>, <<"b">>}
               /\ data[<<"b">>] = <<"2">> /\ data[<<"a">>] = <<"1">>)
            => /\ csvOut.dataHeader \subseteq {<<"a", ",", "b">>}
               /\ csvOut.dataCsv \subseteq {<<"1", ",", "2">>}
        /\ (DOMAIN data = {<<"a">>} /\ data[<<"a">>] = <<"x", ",", "y">>)
            => csvOut.dataCsv \subseteq {<<"x", ";", "y">>}

\* {"b":"2","a":"1"} serialized: header "a,b", line "1,2"
C14_Witness ==
    /\ DOMAIN csvItem.data = {<<"a">>, <<"b">>}
    /\ csvItem.data[<<"b">>] = <<"2">>
    /\ csvOut.dataHeader = {<<"a", ",", "b">>}
    /\ csvOut.dataCsv = {<<"1", ",", "2">>}

\* a value with a comma, under a key that sorts between two others
C14_WitnessComma ==
    /\ DOMAIN csvItem.data = {<<"a">>, <<"a", "b">>}
    /\ csvItem.data[<<"a">>] = <<"x", ",", "y">>
    /\ csvOut.dataHeader = {<<"a", ",", "a", "b">>}
    /\ csvOut.dataCsv = {<<"x", ";", "y", ",", "1">>}

----------------------------------------------------------------------------
(* C15 *)

\* the comma-separated columns of a line
RECURSIVE Split(_)
Split(str) ==
    IF \A i \in 1..Len(str) : str[i] # ","
    THEN <<str>>
    ELSE LET i == CHOOSE i \in 1..Len(str) :
                    str[i] = "," /\ \A j \in 1..(i - 1) : str[j] # ","
         IN  <<SubSeq(str, 1, i - 1)>> \o Split(SubSeq(str, i + 1, Len(str)))

\* C15: for every Submission header() and as_csv() have the same number
\* of comma-separated columns in the same order: time, late, grade, passed,
\* failed, the data columns in sorted-key order, then secret and platform
\* exactly when a fingerprint is set.
C15_HeaderMirrorsCsv ==
    \A h \in csvOut.header, c \in csvOut.csv :
        LET ks == KeysInOrder(csvItem.data)
            fp == csvItem.fingerprint
        IN  /\ Len(Split(h)) = Len(Split(c))
            /\ ks # <<>> =>
                  /\ Split(h) = SubSeq(Split(FixedHeader), 1, 5) \o ks
                        \o (IF fp = {} THEN <<>>
                            ELSE <<<<"s", "e", "c", "r", "e", "t">>,
                                   <<"p", "l", "a", "t", "f", "o", "r", "m">>>>)
                  /\ Split(c) =
                        <<csvItem.time, BoolText(csvItem.late),
                          Decimal(csvItem.grade),
                          Join(csvItem.passed, <<";">>),
                          Join(csvItem.failed, <<";">>)>>
                        \o [i \in 1..Len(ks) |-> Sanitized(csvItem.data[ks[i]])]
                        \o (IF fp = {} THEN <<>>
                            ELSE LET f == CHOOSE f \in fp : TRUE
                                 IN  <<f.secret, f.platform>>)

----------------------------------------------------------------------------
(* C16 *)

\* no Criterion::test and no grade_against call has been made
Fresh == grades = 0 /\ tests = 0 /\ ~panicked

\* C16: for a freshly built Rubric, filled by add with or without attached
\* tests and before any test or grading call, points() is 0 and every
\* criterion's status is None (untested).
C16_FreshRubric ==
    Fresh =>
        /\ \A b \in Builds :
              points(criteria, b) = [panicked |-> FALSE, total |-> Usize(0, 0)]
        /\ \A i \in 1..Len(criteria) : criteria[i].status = None

\* a full rubric with a negative worth and an attached test, not yet used
C16_Witness ==
    /\ Fresh
    /\ Len(criteria) = MaxCrit
    /\ \E i \in 1..Len(criteria) : criteria[i].test # DefaultTest
    /\ \E i \in 1..Len(criteria) : criteria[i].worth < 0

----------------------------------------------------------------------------
(* C17 *)

\* the sum of the worths at the positions from i on
RECURSIVE WorthFrom(_, _)
WorthFrom(crits, i) ==
    IF i > Len(crits) THEN 0 ELSE crits[i].worth + WorthFrom(crits, i + 1)

Untested(crits) == [i \in 1..Len(crits) |-> [crits[i] EXCEPT !.status = None]]

----------------------------------------------------------------------------
(* C18 *)

\* the signed sum of the worths of the criteria whose status is Some(true)
RECURSIVE PassedWorthFrom(_, _)
PassedWorthFrom(crits, i) ==
    IF i > Len(crits) THEN 0
    ELSE (IF crits[i].status = Some(TRUE) THEN crits[i].worth ELSE 0)
         + PassedWorthFrom(crits, i + 1)

\* C18: points() returns the signed sum of worth over exactly the criteria
\* whose status is Some(true), for every assignment of worths, negative
\* ones included, and however the program was built.
C18_PointsSignedSum ==
    \A b \in Builds :
        points(criteria, b) =
            [panicked |-> FALSE,
             total |-> Usize(0, PassedWorthFrom(criteria, 1))]

----------------------------------------------------------------------------
(* C19 *)

\* the position of the first criterion with identifier f, if there is one
FirstWith(crits, f) ==
    {k \in 1..Len(crits) :
        crits[k].func = f /\ \A j \in 1..(k - 1) : crits[j].func # f}

Mentions(pairs, f) == \E j \in 1..Len(pairs) : pairs[j][1] = f

\* some pair names an identifier that no criterion has
Missing(crits, pairs) ==
    \E j \in 1..Len(pairs) : FirstWith(crits, pairs[j][1]) = {}

\* the predicate of the last pair that names f
LastPred(pairs, f) ==
    LET j == CHOOSE j \in 1..Len(pairs) :
                /\ pairs[j][1] = f
                /\ \A l \in (j + 1)..Len(pairs) : pairs[l][1] # f
    IN  pairs[j][2]

\* the criteria after every pair has replaced the predicate of the first
\* criterion with its identifier
Attached(crits, pairs) ==
    [k \in 1..Len(crits) |->
        IF /\ k \in FirstWith(crits, crits[k].func)
           /\ Mentions(pairs, crits[k].func)
        THEN [crits[k] EXCEPT !.test = LastPred(pairs, crits[k].func)]
        ELSE crits[k]]

\* C19: attach! processes every (identifier, predicate) pair: when every
\* identifier has a criterion, the first criterion with that identifier
\* gets the predicate and nothing else changes, and a later test() runs the
\* new predicate; when some identifier has none, the program panics, and a
\* program that has panicked does nothing further.
C19_AttachMacro ==
    /\ [](~panicked =>
            \A pairs \in PairLists :
              LET r == attachAll([criteria |-> criteria, panicked |-> FALSE],
                                 pairs)
              IN  /\ r.panicked <=> Missing(criteria, pairs)
                  /\ ~r.panicked => r.criteria = Attached(criteria, pairs))
    /\ [][~panicked]_vars
    /\ [][(panicked' \/ \E k, l \in 1..Len(criteria) :
                          /\ l <= Len(criteria')
                          /\ criteria'[l].name = criteria[k].name
                          /\ criteria'[l].test # criteria[k].test)
            => \E pairs \in PairLists :
                  /\ panicked' <=> Missing(criteria, pairs)
                  /\ ~panicked' => criteria' = Attached(criteria, pairs)]_vars
    /\ [][tests' = tests + 1
            => \E k \in 1..Len(criteria) :
                  criteria' = [criteria EXCEPT
                     ![k].status = Some("empty" \in criteria[k].test)]]_vars

\* attach! named an identifier that no criterion has: the program aborted
C19_Witness ==
    /\ panicked
    /\ Len(criteria) > 0
    /\ \A i \in 1..Len(criteria) : criteria[i].func # "f2"

\* of two criteria with the same identifier the first had its predicate
\* replaced, and test() then passed on it
C19_WitnessReplaced ==
    /\ ~panicked /\ tests = 1 /\ grades = 0
    /\ Len(criteria) = 2
    /\ criteria[1].func = criteria[2].func
    /\ criteria[1].test = {"empty"} /\ criteria[1].status = Some(TRUE)
    /\ criteria[2].test = DefaultTest /\ criteria[2].status = None

----------------------------------------------------------------------------
(* C20 *)

\* the criteria are as the previous grading pass left them: each status
\* is what its predicate returns on the submission's data
SameRubric ==
    \A i \in 1..Len(criteria) :
        criteria[i].status = Some(RunTest(criteria[i], sub.data))

\* the second grading pass of a submission, before any deadline, against
\* the rubric of the first pass
SecondPass ==
    /\ GradeStep /\ grades = 1
    /\ ~PastDue(policy, now') /\ ~PastFinalDeadline(policy, now')
    /\ SameRubric

\* C20: grade_against does not guard against grading again: a second pass
\* on the same Submission against the same Rubric, with no deadline
\* passed, leaves the grade at twice the single-pass grade and each trail
\* list at twice its single-pass length, the entries of the second pass
\* after those of the first.
C20_GradingTwiceDoubles ==
    [][SecondPass
        => /\ sub'.grade = 2 * sub.grade
           /\ Len(sub'.passed) = 2 * Len(sub.passed)
           /\ Len(sub'.failed) = 2 * Len(sub.failed)
           /\ sub'.passed = sub.passed \o sub.passed
           /\ sub'.failed = sub.failed \o sub.failed]_vars

\* graded twice with one criterion passing and one failing: grade 20 and
\* two entries in each list
C20_Witness ==
    /\ grades = 2 /\ ~sub.late
    /\ ~PastDue(policy, now)
    /\ sub.grade = 20
    /\ Len(sub.passed) = 2 /\ sub.passed[1] = sub.passed[2]
    /\ Len(sub.failed) = 2 /\ sub.failed[1] = sub.failed[2]

----------------------------------------------------------------------------
(* C21 *)

\* the rubrics another run can build from the same source: the same
\* criteria, with the same predicates attached, in any iteration order
OtherRuns(crits) ==
    { other \in [1..Len(crits) -> {crits[i] : i \in 1..Len(crits)}] :
        \A i \in 1..Len(crits) : \E j \in 1..Len(crits) : other[j] = crits[i] }

EntrySet(entries) == {entries[k] : k \in 1..Len(entries)}

DistinctIndices(crits) ==
    \A i, j \in 1..Len(crits) : i # j => crits[i].index # crits[j].index

\* the first grading of a run; every other run of the same source grades
\* the same submission at the same instant
FirstGrading == GradeStep /\ grades = 0 /\ criteria # <<>>

\* C21 as stated: two runs that build the rubric from the same source,
\* attach the same predicates and grade a submission with the same data
\* at the same instant give the same grade and identical passed and failed
\* sequences, also when several criteria share an index.
C21_SameTrailEveryRun ==
    [][FirstGrading =>
        \A other \in OtherRuns(criteria) :
            grade_against(sub, other, policy, now').sub = sub']_vars

\* C21 amended: two such runs give the same grade and the same passed and
\* failed entries; the sequences are identical (same order) when no two
\* criteria share an index, and the entries of criteria that share an
\* index can come in either order.
C21_SameGradeSameEntries ==
    [][FirstGrading =>
        \A other \in OtherRuns(criteria) :
            LET s == grade_against(sub, other, policy, now').sub
            IN  /\ s.grade = sub'.grade
                /\ s.late = sub'.late
                /\ Len(s.passed) = Len(sub'.passed)
                /\ Len(s.failed) = Len(sub'.failed)
                /\ EntrySet(s.passed) = EntrySet(sub'.passed)
                /\ EntrySet(s.failed) = EntrySet(sub'.failed)
                /\ DistinctIndices(criteria) => s = sub']_vars

\* a run in which the map yielded c2 before c1, both with index 100 and
\* both failing: c2's entry comes first
C21_Witness ==
    /\ grades = 1
    /\ Len(criteria) = 2
    /\ criteria[1].index = criteria[2].index
    /\ sub.failed = <<Entry(<<"c2">>, "-", 0), Entry(<<"c1">>, "-", 0)>>

\* distinct indices: c2 (index 1) before c1 (index 2), both passing
C21_WitnessDistinct ==
    /\ grades = 1
    /\ Len(criteria) = 2
    /\ criteria[1].index < criteria[2].index
    /\ sub.passed = <<Entry(<<"c2">>, "+", 15), Entry(<<"c1">>, "+", 10)>>

----------------------------------------------------------------------------
(* C22 *)

\* C22: the rubric keeps the criteria in the order they were added,
\* whatever has been sorted since: criteria() returns them in insertion
\* order and get(identifier) returns the first-inserted criterion with
\* that identifier.
C22_InsertionOrderKept ==
    /\ \A i, j \in 1..Len(criteria) :
          i < j => Ord(criteria[i]) < Ord(criteria[j])
    /\ \A f \in Funcs :
          Get(criteria, f) # 0 =>
            \A j \in 1..Len(criteria) :
               criteria[j].func = f
                 => Ord(criteria[Get(criteria, f)]) <= Ord(criteria[j])

----------------------------------------------------------------------------
(* C23 *)

\* the chain of build k calls the setter
Sets(k, setter) ==
    \E j \in 1..Len(built[k].chain) : built[k].chain[j][1] = setter

\* every criterion of this name was built without a test
NoTestAttached(name) ==
    \A k \in 1..Len(built) : built[k].crit.name = name => ~Sets(k, "test")

\* C23: a Criterion built with only a name has worth 0, messages
\* ("passed", "failed"), index 100, hide false, no description and status
\* untested, and its predicate is false for every data map; a criterion
\* with no test attached is never passed once tested, and a grading that
\* reaches the criteria gives it a failed entry and leaves the grade as it
\* was.
C23_BuilderDefaults ==
    /\ [](\A k \in 1..Len(built) :
            built[k].chain = <<>> =>
              LET c == built[k].crit
              IN  /\ c.worth = 0
                  /\ c.messages = <<"passed", "failed">>
                  /\ c.index = 100
                  /\ c.hide = FALSE
                  /\ c.desc = {}
                  /\ c.status = None
                  /\ \A data \in DataMaps : ~RunTest(c, data))
    /\ [](\A i \in 1..Len(criteria) :
            NoTestAttached(criteria[i].name)
              => criteria[i].status \in {None, Some(FALSE)})
    /\ [][(tests' = tests + 1 /\ Len(criteria) = 1
            /\ NoTestAttached(criteria[1].name))
            => criteria'[1].status = Some(FALSE)]_vars
    /\ [][FullStep =>
            \A i \in 1..Len(criteria') :
               NoTestAttached(criteria'[i].name)
                 => criteria'[i].status = Some(FALSE)]_vars
    /\ [][(FullStep /\ \A i \in 1..Len(criteria) :
                           NoTestAttached(criteria[i].name))
            => /\ sub'.grade = sub.grade
               /\ sub'.passed = sub.passed
               /\ Len(sub'.failed) = Len(sub.failed) + Len(criteria)]_vars

\* a criterion built with only a name, tested and graded: failed, grade 0
C23_Witness ==
    /\ Len(built) = 1 /\ built[1].chain = <<>>
    /\ built[1].variant = "func"
    /\ tests = 1 /\ grades = 1
    /\ criteria[1].status = Some(FALSE)
    /\ sub.grade = 0
    /\ sub.failed = <<Entry(<<criteria[1].name>>, "-", 0)>>

\* a criterion given a worth but no test: still nothing added
C23_WitnessWorth ==
    /\ Len(built) = 1 /\ built[1].chain = <<<<"worth", 10>>>>
    /\ grades = 1
    /\ sub.grade = 0 /\ sub.passed = <<>>

----------------------------------------------------------------------------
(* C24 *)

\* str lowercased, each maximal run of whitespace between two words
\* replaced by one sep, whitespace at either end dropped: read left to
\* right, word says a word has been read and gap that whitespace came
\* after it
RECURSIVE Collapsed(_, _, _, _)
Collapsed(str, sep, word, gap) ==
    IF str = <<>> THEN <<>>
    ELSE IF Head(str) \in {" ", "\t", "\n"}
         THEN Collapsed(Tail(str), sep, word, word)
         ELSE (IF gap THEN <<sep>> ELSE <<>>)
              \o <<Lowercase(Head(str))>>
              \o Collapsed(Tail(str), sep, TRUE, FALSE)

Separator(variant) == IF variant = "func" THEN "_" ELSE "-"

\* C24: when no identifier is set, build() derives it from the name: the
\* name lowercased with every maximal run of whitespace replaced by one
\* separator ("_" in the func variant, "-" in the stub variant) and no
\* separator at either end ("MY CRIT    2" gives "my_crit_2"); an
\* identifier that was set is used unchanged.
C24_DerivedIdentifier ==
    \A k \in 1..Len(built) :
        /\ ~Sets(k, "func") =>
              built[k].crit.func
                = Collapsed(built[k].input, Separator(built[k].variant),
                            FALSE, FALSE)
        /\ (built[k].variant = "func" /\ ~Sets(k, "func")
            /\ built[k].input = <<"M", "Y", " ", "C", "R", "I", "T", " ", " ", " ", " ", "2">>) => built[k].crit.func = <<"m", "y", "_", "c", "r", "i", "t", "_", "2">>
        /\ \A j \in 1..Len(built[k].chain) :
              built[k].chain[j][1] = "func"
                => built[k].crit.func = built[k].chain[j][2]

----------------------------------------------------------------------------
(* C25 *)

\* the positions of a request: not yet posted, posted (Listening), in the
\* handler (Accepting), answered
Positions == {"idle", "posted", "lock", "length", "header", "record", "done"}

\* C25: the endpoint only moves Listening -> Accepting -> Listening: every
\* request that entered the handler ends with status 202 or 500, and the
\* lock is released on each return path (success, header-write failure,
\* record-write failure), so whenever no request is inside the critical
\* section the lock is free for the next request.
C25_ServedAndReleased ==
    /\ [](\A i \in Requests : pc[i] \in Positions)
    /\ [](\A i \in Requests :
            (pc[i] = "done" /\ Deserializes(req[i]))
              => resp[i] \in {202, 500} /\ mutex # i)
    /\ [](InCritical = {} => mutex = 0)
    /\ [][\A i \in Requests :
            (Leaves(i, "header") \/ Leaves(i, "record")) /\ pc'[i] = "done"
              => mutex' = 0]_vars

----------------------------------------------------------------------------
(* C26 *)

\* the criteria that failed in the pass that has just been made
Failing(crits) == {i \in 1..Len(crits) : crits[i].status = Some(FALSE)}

\* a grading step on the late path that reaches the criteria puts, before
\* the entries of the failing criteria, the flat late-penalty entry and,
\* when a per-day penalty is set or always is TRUE, the days-late entry
LateEntries(always) ==
    (FullStep /\ PastDue(policy, now')) =>
        LET new == NewEntries(sub.failed, sub'.failed)
            n == DaysLate(now' - TheDeadline)
            late == Entry(<<"Late submission">>, "-", policy.late_penalty)
            days == Entry(<<n, "days late">>, "-", policy.daily_penalty * n)
            fails == Cardinality(Failing(criteria'))
        IN  IF always \/ policy.daily_penalty # 0
            THEN /\ Len(new) = 2 + fails
                 /\ new[1] = late
                 /\ new[2] = days
            ELSE /\ Len(new) = 1 + fails
                 /\ new[1] = late
                 /\ \A k \in 1..Len(new) : Len(new[k].msg) = 1

\* C26 as stated: on the late path the "N days late" entry and the per-day
\* subtraction happen only when a per-day penalty is configured; with none,
\* a late grading appends exactly one penalty entry (the flat late penalty)
\* before the criterion entries.
C26_DaysEntryOnlyWhenConfigured == [][LateEntries(FALSE)]_vars

\* C26 amended: on the late path the "N days late" entry is appended and
\* the per-day amount subtracted whether or not a per-day penalty is
\* configured; with none the amount is 0 and a late grading appends two
\* penalty entries (the flat late penalty, then "N days late (-0)") before
\* the criterion entries.
C26_DaysEntryAlways == [][LateEntries(TRUE)]_vars

\* a late grading under a rubric with a flat penalty and no per-day
\* penalty: two deadline entries, the second with amount 0
C26_Witness ==
    /\ grades = 1 /\ sub.late
    /\ policy.allow_late
    /\ policy.late_penalty = 5 /\ policy.daily_penalty = 0
    /\ Len(criteria) = 1
    /\ Len(sub.failed) >= 2
    /\ sub.failed[1] = Entry(<<"Late submission">>, "-", 5)
    /\ sub.failed[2] = Entry(<<1, "days late">>, "-", 0)
    /\ sub.grade = -5

----------------------------------------------------------------------------
(* C27 *)

\* the requests of the per-request handler between the length check of
\* ResultsFile::new and the end of their record write
BetweenCheckAndAppend == {i \in Requests : pc[i] \in {"new_header", "write"}}

\* C27: in the per-request handler of src/server.rs the length check, the
\* conditional header write and the record append of one request are
\* indivisible: no two requests are between the check and the append at
\* once, and on a file that was empty the only header line is the first
\* line, so two simultaneous submissions never both write a header and no
\* record comes before the header.
C27_PerRequestIndivisible ==
    /\ Cardinality(BetweenCheckAndAppend) <= 1
    /\ file0 = <<>> => \A k \in 1..Len(file) : IsHeader(file[k]) <=> k = 1

----------------------------------------------------------------------------
(* C28 *)

\* how many times the predicate of the criterion called name was invoked
\* with data in the last pass
Invocations(name, data) ==
    Cardinality({k \in 1..Len(calls') : calls'[k] = <<name, data>>})

\* C28: in a grading pass that reaches the criteria every criterion has
\* its predicate invoked exactly once, with the submission's data, and its
\* status set to that result, so afterwards no criterion is untested and
\* the criterion entries added to passed and failed number as many as the
\* criteria; a later pass sets each status again, to its own result.
C28_EveryCriterionTestedOnce ==
    [][FullStep =>
        /\ Len(calls') = Len(criteria)
        /\ Len(criteria') = Len(criteria)
        /\ \A i \in 1..Len(criteria) :
              Invocations(criteria[i].name, sub.data) = 1
        /\ \A i \in 1..Len(criteria') :
              /\ criteria'[i].status # None
              /\ criteria'[i].status = Some(sub.data \in criteria'[i].test)
        /\ Len(NewEntries(sub.passed, sub'.passed))
             + Len(NewEntries(sub.failed, sub'.failed))
             = Len(criteria)
                 + Len(DeadlineMsgs(policy, TheDeadline, now'))]_vars

\* one pass over two criteria, one passing and one failing
C28_Witness ==
    /\ grades = 1
    /\ Len(criteria) = 2 /\ Len(calls) = 2
    /\ \E i, j \in 1..2 :
          criteria[i].status = Some(TRUE) /\ criteria[j].status = Some(FALSE)

\* a criterion that failed in the first pass passes in the second, after
\* a predicate was attached to it
C28_WitnessSecondPass ==
    /\ grades = 2
    /\ \E i \in 1..Len(criteria) :
          /\ criteria[i].status = Some(TRUE)
          /\ \E k \in 1..Len(sub.failed) :
                sub.failed[k].msg = <<criteria[i].name>>
          /\ \E k \in 1..Len(sub.passed) :
                sub.passed[k].msg = <<criteria[i].name>>

----------------------------------------------------------------------------
(* C29 *)

\* C29: grade_against sets late to true exactly when the deadline has
\* passed and the final-deadline branch was not taken; it never sets late
\* back to false, and a grading after the final deadline leaves late as it
\* was (false on a fresh submission) even though the deadline has passed
\* too.
C29_LateFlag ==
    /\ [][GradeStep =>
            sub'.late = (sub.late \/ (/\ PastDue(policy, now')
                                      /\ ~PastFinalDeadline(policy, now')))]_vars
    /\ [][FinalStep => sub'.late = sub.late]_vars
    /\ [](grades = 0 => ~sub.late)

\* a fresh submission graded after both deadlines: not marked late
C29_Witness ==
    /\ grades = 1
    /\ policy.deadline = At(Deadline)
    /\ policy.final_deadline = At(FinalDeadline)
    /\ now > FinalDeadline
    /\ ~sub.late
    /\ sub.failed = <<Entry(<<"Past final deadline">>, "-", 0)>>

\* marked late by a first grading and graded again after the final
\* deadline: still late
C29_WitnessStillLate ==
    /\ grades = 2
    /\ now > FinalDeadline
    /\ policy.final_deadline = At(FinalDeadline)
    /\ sub.late

----------------------------------------------------------------------------
(* C30 *)

\* the characters of a line of the results file
Chars(line) ==
    CASE line = "x,y" ->
             <<"x", ",", "y">>
      [] line = "5,7" ->
             <<"5", ",", "7">>
      [] line = "time,late,grade,passed,failed," ->
             <<"t", "i", "m", "e", ",", "l", "a", "t", "e", ",", "g",
             "r", "a", "d", "e", ",", "p", "a", "s", "s", "e", "d", ",",
             "f", "a", "i", "l", "e", "d", ",">>
      [] line = "time,late,grade,passed,failed,,secret,platform" ->
             <<"t", "i", "m", "e", ",", "l", "a", "t", "e", ",", "g",
             "r", "a", "d", "e", ",", "p", "a", "s", "s", "e", "d", ",",
             "f", "a", "i", "l", "e", "d", ",", ",", "s", "e", "c", "r",
             "e", "t", ",", "p", "l", "a", "t", "f", "o", "r", "m">>
      [] line = "t,false,0,,," ->
             <<"t", ",", "f", "a", "l", "s", "e", ",", "0", ",", ",",
             ",">>
      [] line = "t,false,0,,,,key,linux" ->
             <<"t", ",", "f", "a", "l", "s", "e", ",", "0", ",", ",",
             ",", ",", "k", "e", "y", ",", "l", "i", "n", "u", "x">>
      [] OTHER -> <<>>

\* the number of comma-separated columns of a line
Columns(line) == Len(Split(Chars(line)))

\* C30: every record line in the results file has as many comma-separated
\* columns as its header line, the header of the first accepted
\* submission, also when later submissions differ in their data keys or
\* in whether a fingerprint is set.
C30_ColumnsMatchHeader ==
    \A k \in 2..Len(file) : Columns(file[k]) = Columns(file[1])

====
